---- MODULE Spec2Model ----
(***************************************************************************)
(* Evelyn Reminder: the dose scheduling engine (class Dose) and the        *)
(* /history and /ping resources of the API server                          *)
(* (src/src/evelyn_reminder/api/__init__.py), the ping session of the bot  *)
(* (client/bot) and the ping timer of the desktop client (client/desktop). *)
(*                                                                         *)
(* Time.  Instants are integers counting ticks from an arbitrary UTC      *)
(* midnight; durations are integers counting ticks.  Python's datetime    *)
(* counts microseconds, 86 400 000 000 to the day; here a tick is two     *)
(* minutes, Day = 720.  720 is the least day length that keeps the        *)
(* arithmetic of timedelta division as it is in microseconds for          *)
(* cycles_per_day in 1..10: the day divides exactly by 1,2,3,4,5,6,8,9,10  *)
(* with an even quotient, and by 7 it leaves remainder 6, so the period   *)
(* is rounded up, is odd, and 7 periods are one tick longer than the day  *)
(* (12 342 857 143 us * 7 = 86 400 000 001 us in the program).            *)
(***************************************************************************)
EXTENDS Integers, Sequences, FiniteSets, TLC

VARIABLES
    reminder,   \* the Reminder row: configuration and state
    history,    \* the History rows of the reminder, in insertion order
    now,        \* the server clock, Mixin._now()
    dose,       \* the Dose an engine operation is applied to
    out,        \* the last operation, its arguments and its result
    sessions    \* the database session of each serving thread

vars == <<reminder, history, now, dose, out, sessions>>

----------------------------------------------------------------------------
(* Bounds *)

\* cycles_per_day ranges over 1..MaxCycles in SpecCycle
MaxCycles == 10
\* timestamps handed to the cycle resolver range over WindowDays days
WindowDays == 2
\* "now" ranges over 0..MaxNowDose in SpecDose
MaxNowDose == 400
\* the server clock stops at MaxClock
MaxClock == 480
\* at most MaxHistory History rows are recorded
MaxHistory == 3

----------------------------------------------------------------------------
(* Durations *)

\* datetime.timedelta(days=1), in ticks
Day == 720

Abs(x) == IF x < 0 THEN -x ELSE x

Min(a, b) == IF a < b THEN a ELSE b

Max(a, b) == IF a > b THEN a ELSE b

\* timedelta / int: the quotient rounded to the nearest tick, ties to even
\* (CPython's _divide_and_round), for a >= 0 and b > 0
DivideAndRound(a, b) ==
    LET q == a \div b
        r == a % b
    IN  IF 2 * r > b \/ (2 * r = b /\ q % 2 = 1) THEN q + 1 ELSE q

\* Reminder.period
Period(r) == DivideAndRound(Day, r.cycles_per_day)

\* reminder.period / 2
HalfPeriod(r) == DivideAndRound(Period(r), 2)

\* timestamp.date(): the UTC calendar day of an instant
DateOf(t) == t \div Day

\* datetime.datetime.combine(date, reminder.bed_time)
Combine(date, r) == date * Day + r.bed_time_utc

----------------------------------------------------------------------------
(* The threads of the server *)

\* two threads serving requests
Workers == {"w1", "w2"}

\* no session_scope is open
NoSessions == [w \in Workers |-> [pc |-> "idle"]]

----------------------------------------------------------------------------
(* The Reminder row *)

\* response_emotes is NULL
NoEmotes == <<>>

\* datetime.datetime.min, the default of last_ping_utc and mute_until_utc:
\* an instant before every instant of the clocks
DatetimeMin == -1000000

\* a new row: ping_interval, last_ping_utc, mute_until_utc, alternating_flag
\* and active have their column defaults (ping_interval 30 minutes)
Reminder(cpd, corr, bed, alt, emotes) ==
    [cycles_per_day    |-> cpd,
     correction_amount |-> corr,
     ping_interval     |-> 15,
     bed_time_utc      |-> bed,
     show_alternating  |-> alt,
     response_emotes   |-> emotes,
     last_ping_utc     |-> DatetimeMin,
     mute_until_utc    |-> DatetimeMin,
     alternating_flag  |-> FALSE,
     active            |-> TRUE]

----------------------------------------------------------------------------
(* class Dose *)

\* the while loop of Dose._get_cycle
RECURSIVE GetCycleLoop(_, _, _, _)
GetCycleLoop(r, timestamp, closest_center, cycle) ==
    IF Abs(timestamp - closest_center) <= HalfPeriod(r)
    THEN [cycle |-> cycle, closest_center |-> closest_center]
    ELSE IF timestamp > closest_center
         THEN GetCycleLoop(r, timestamp, closest_center + Period(r),
                           (cycle + 1) % r.cycles_per_day)
         ELSE GetCycleLoop(r, timestamp, closest_center - Period(r),
                           (cycle + r.cycles_per_day - 1) % r.cycles_per_day)

\* _get_cycle comparing against a whole period instead of half of it
RECURSIVE GetCycleWideLoop(_, _, _, _)
GetCycleWideLoop(r, timestamp, closest_center, cycle) ==
    IF Abs(timestamp - closest_center) <= Period(r)
    THEN [cycle |-> cycle, closest_center |-> closest_center]
    ELSE IF timestamp > closest_center
         THEN GetCycleWideLoop(r, timestamp, closest_center + Period(r),
                               (cycle + 1) % r.cycles_per_day)
         ELSE GetCycleWideLoop(r, timestamp, closest_center - Period(r),
                               (cycle + r.cycles_per_day - 1) % r.cycles_per_day)

GetCycleWide(r, timestamp) ==
    GetCycleWideLoop(r, timestamp, Combine(DateOf(timestamp), r),
                     r.cycles_per_day - 1)

\* the while loop of Dose._get_cycle, keeping the values closest_center
\* takes: seen, then the one under test, then those after it
RECURSIVE GetCycleCandidatesLoop(_, _, _, _)
GetCycleCandidatesLoop(r, timestamp, closest_center, seen) ==
    IF Abs(timestamp - closest_center) <= HalfPeriod(r)
    THEN Append(seen, closest_center)
    ELSE IF timestamp > closest_center
         THEN GetCycleCandidatesLoop(r, timestamp, closest_center + Period(r),
                                     Append(seen, closest_center))
         ELSE GetCycleCandidatesLoop(r, timestamp, closest_center - Period(r),
                                     Append(seen, closest_center))

\* the candidates of _get_cycle started two days before the timestamp's date
GetCycleCandidatesFromEarlier(r, timestamp) ==
    GetCycleCandidatesLoop(r, timestamp, Combine(DateOf(timestamp) - 2, r),
                           <<>>)

\* the values closest_center takes in Dose._get_cycle(reminder, timestamp),
\* from bed time of the timestamp's date to the value returned
GetCycleCandidates(r, timestamp) ==
    GetCycleCandidatesLoop(r, timestamp, Combine(DateOf(timestamp), r), <<>>)

\* _get_cycle starting from bed time of the day before the timestamp's
GetCycleFromDayBefore(r, timestamp) ==
    GetCycleLoop(r, timestamp, Combine(DateOf(timestamp) - 1, r),
                 r.cycles_per_day - 1)

\* _get_cycle starting with cycle 0
GetCycleFromZero(r, timestamp) ==
    GetCycleLoop(r, timestamp, Combine(DateOf(timestamp), r), 0)

\* Dose._get_cycle(reminder, timestamp)
GetCycle(r, timestamp) ==
    GetCycleLoop(r, timestamp, Combine(DateOf(timestamp), r),
                 r.cycles_per_day - 1)

\* __init__ resolving the timestamp instead of the center
DoseFromTimestamp(r, timestamp, center) ==
    LET c == GetCycle(r, timestamp)
    IN  [timestamp      |-> timestamp,
         center         |-> center,
         late           |-> timestamp - center,
         cycle          |-> c.cycle,
         closest_center |-> c.closest_center]

\* Dose.__init__
Dose(r, timestamp, center) ==
    LET c == GetCycle(r, center)
    IN  [timestamp      |-> timestamp,
         center         |-> center,
         late           |-> timestamp - center,
         cycle          |-> c.cycle,
         closest_center |-> c.closest_center]

\* get_target without the floor min(desired_next_time, now)
GetTargetNoFloor(r, d, n) ==
    LET next_center       == d.closest_center + Period(r)
        desired_next_time == d.timestamp + Period(r)
        correction        == Max(Min(d.closest_center - d.timestamp,
                                     r.correction_amount),
                                 -r.correction_amount)
    IN  Dose(r, desired_next_time + correction, next_center)

\* get_target without the clamp of the correction
GetTargetNoClamp(r, d, n) ==
    LET next_center       == d.closest_center + Period(r)
        desired_next_time == d.timestamp + Period(r)
        correction        == d.closest_center - d.timestamp
        next_time         == desired_next_time + correction
        minimum_time      == Min(desired_next_time, n)
    IN  Dose(r, Max(next_time, minimum_time), next_center)

\* get_target without the correction toward the center
GetTargetUncorrected(r, d, n) ==
    LET next_center       == d.closest_center + Period(r)
        desired_next_time == d.timestamp + Period(r)
        minimum_time      == Min(desired_next_time, n)
    IN  Dose(r, Max(desired_next_time, minimum_time), next_center)

\* Dose.get_target(now), for the dose d of reminder r
GetTarget(r, d, n) ==
    LET next_center       == d.closest_center + Period(r)
        desired_next_time == d.timestamp + Period(r)
        correction        == Max(Min(d.closest_center - d.timestamp,
                                     r.correction_amount),
                                 -r.correction_amount)
        next_time         == desired_next_time + correction
        minimum_time      == Min(desired_next_time, n)
    IN  Dose(r, Max(next_time, minimum_time), next_center)

\* the first loop of get_taken: step back while the smaller center is
\* more than correction_amount after now
RECURSIVE TakenBack(_, _, _)
TakenBack(r, next_center, n) ==
    LET smaller_center == next_center - Period(r)
    IN  IF smaller_center > n + r.correction_amount
        THEN TakenBack(r, smaller_center, n)
        ELSE next_center

\* the second loop of get_taken: step forward while the bigger center is
\* more than correction_amount before now
RECURSIVE TakenForward(_, _, _)
TakenForward(r, next_center, n) ==
    LET bigger_center == next_center + Period(r)
    IN  IF bigger_center < n - r.correction_amount
        THEN TakenForward(r, bigger_center, n)
        ELSE next_center

\* get_taken without the two loops: the naive next center
GetTakenNaive(r, d, n) ==
    Dose(r, n, d.closest_center + Period(r))

\* get_taken starting from the stored center itself instead of the
\* center one period after it
GetTakenFromCenter(r, d, n) ==
    LET next_center == d.closest_center
    IN  Dose(r, n, IF next_center > n
                   THEN TakenBack(r, next_center, n)
                   ELSE TakenForward(r, next_center, n))

\* Dose.get_taken(now), for the dose d of reminder r
GetTaken(r, d, n) ==
    LET next_center == d.closest_center + Period(r)
    IN  IF next_center > n
        THEN Dose(r, n, TakenBack(r, next_center, n))
        ELSE Dose(r, n, TakenForward(r, next_center, n))

\* the number of times the first loop of get_taken assigns next_center
RECURSIVE TakenBackSteps(_, _, _)
TakenBackSteps(r, next_center, n) ==
    LET smaller_center == next_center - Period(r)
    IN  IF smaller_center > n + r.correction_amount
        THEN 1 + TakenBackSteps(r, smaller_center, n)
        ELSE 0

\* the number of times the second loop of get_taken assigns next_center
RECURSIVE TakenForwardSteps(_, _, _)
TakenForwardSteps(r, next_center, n) ==
    LET bigger_center == next_center + Period(r)
    IN  IF bigger_center < n - r.correction_amount
        THEN 1 + TakenForwardSteps(r, bigger_center, n)
        ELSE 0

\* get_taken entering both loops one after the other and stepping while
\* next_center itself is outside the window
TakenStepsUnwindowed(r, d, n) ==
    LET next_center == d.closest_center + Period(r)
    IN  [back    |-> TakenBackSteps(r, next_center + Period(r), n),
         forward |-> TakenForwardSteps(r, next_center - Period(r), n)]

\* how often each loop of Dose.get_taken(now) steps, for the dose d
TakenSteps(r, d, n) ==
    LET next_center == d.closest_center + Period(r)
    IN  IF next_center > n
        THEN [back |-> TakenBackSteps(r, next_center, n), forward |-> 0]
        ELSE [back |-> 0, forward |-> TakenForwardSteps(r, next_center, n)]

----------------------------------------------------------------------------
(* The cycle resolver applied to arbitrary timestamps: SpecCycle *)

\* bed_time_utc values: midnight, 01:42, noon, 22:00 (the default), 23:00
\* and the last tick of the day
BedTimes == {0, 51, 360, 660, 690, 719}

CycleReminders ==
    {Reminder(cpd, 30, bed, FALSE, NoEmotes) :
        cpd \in 1..MaxCycles, bed \in BedTimes}

NoDose == [timestamp |-> 0, center |-> 0, late |-> 0, cycle |-> 0,
           closest_center |-> 0]

InitCycle ==
    /\ reminder \in CycleReminders
    /\ history = <<>>
    /\ now = 0
    /\ dose = NoDose
    /\ out = [op |-> "init"]
    /\ sessions = NoSessions

\* resolve a timestamp of the window
Resolve ==
    /\ out.op = "init"
    /\ \E t \in 0..(WindowDays * Day) :
          out' = [op |-> "resolve", t |-> t, first |-> GetCycle(reminder, t)]
    /\ UNCHANGED <<reminder, history, now, dose, sessions>>

\* resolve the center that was just resolved
ReResolve ==
    /\ out.op = "resolve"
    /\ out' = [op |-> "reresolve", t |-> out.t, first |-> out.first,
               second |-> GetCycle(reminder, out.first.closest_center)]
    /\ UNCHANGED <<reminder, history, now, dose, sessions>>

\* resolve the center just resolved and the center one period after it
ResolveNext ==
    /\ out.op = "resolve"
    /\ out' = [op |-> "resolve_next", t |-> out.t, first |-> out.first,
               center |-> GetCycle(reminder, out.first.closest_center),
               next |-> GetCycle(reminder, out.first.closest_center
                                              + Period(reminder))]
    /\ UNCHANGED <<reminder, history, now, dose, sessions>>

\* the candidates the resolution of the timestamp went through
ResolveSteps ==
    /\ out.op = "resolve"
    /\ out' = [op |-> "resolve_steps", t |-> out.t, first |-> out.first,
               candidates |-> GetCycleCandidates(reminder, out.t)]
    /\ UNCHANGED <<reminder, history, now, dose, sessions>>

NextCycle ==
    \/ Resolve
    \/ ReResolve
    \/ ResolveNext
    \/ ResolveSteps

SpecCycle == InitCycle /\ [][NextCycle]_vars

\* whether the period of r times cycles_per_day is the day exactly
ExactPeriod(r) == Period(r) * r.cycles_per_day = Day

\* C5: for cycles_per_day in 1..10 and every timestamp of a 48 h window,
\* _get_cycle returns a cycle index in [0, cycles_per_day) and a closest
\* center within period / 2 of the timestamp.
C5_CycleCoverage ==
    out.op = "resolve" =>
        /\ out.first.cycle \in 0..(reminder.cycles_per_day - 1)
        /\ Abs(out.t - out.first.closest_center) <= HalfPeriod(reminder)

\* C5 witness: a resolution that stepped past midnight, to a center of
\* another calendar day than the timestamp's, and wrapped the cycle index
C5_Witness ==
    /\ out.op = "resolve"
    /\ reminder.cycles_per_day = 10
    /\ DateOf(out.first.closest_center) # DateOf(out.t)
    /\ out.first.closest_center # Combine(DateOf(out.t), reminder)
    /\ out.first.cycle = 0

\* C6: resolving the closest center of a timestamp returns the same
\* (cycle, closest center) pair as resolving the timestamp.
C6_IdempotentReResolution ==
    out.op = "reresolve" => out.second = out.first

\* C6 holds of the cadences whose period divides the day exactly
C6_ExactPeriodsIdempotent ==
    (out.op = "reresolve" /\ ExactPeriod(reminder)) => out.second = out.first

\* whether timestamp t is half a period from the center cc and from a
\* center next to it
Tie(r, t, cc) ==
    /\ 2 * HalfPeriod(r) = Period(r)
    /\ Abs(t - cc) = HalfPeriod(r)

\* C17: a timestamp exactly half a period from two adjacent centers
\* resolves to the one reached first from bed time of its date: the
\* earlier center when it is after that bed time, the later when before.
C17_TieTowardDateAnchor ==
    (out.op = "resolve" /\ Tie(reminder, out.t, out.first.closest_center)) =>
        IF out.t > Combine(DateOf(out.t), reminder)
        THEN out.first.closest_center = out.t - HalfPeriod(reminder)
        ELSE out.first.closest_center = out.t + HalfPeriod(reminder)

\* C17 witness: a tie before bed time of the date, reached after stepping
\* back, resolved to the later center
C17_Witness ==
    /\ out.op = "resolve"
    /\ Tie(reminder, out.t, out.first.closest_center)
    /\ out.t < Combine(DateOf(out.t), reminder)
    /\ out.first.closest_center # Combine(DateOf(out.t), reminder)
    /\ out.first.closest_center = out.t + HalfPeriod(reminder)

\* C18: a center equal to bed time of its date resolves to cycle
\* cycles_per_day - 1, and the center one period after a center c has the
\* cycle of c plus one modulo cycles_per_day, across midnight too.
C18_CycleFollowsSchedule ==
    /\ (out.op = "resolve" /\ out.t = Combine(DateOf(out.t), reminder)) =>
           /\ out.first.cycle = reminder.cycles_per_day - 1
           /\ out.first.closest_center = out.t
    /\ out.op = "resolve_next" =>
           /\ out.center.cycle = out.first.cycle
           /\ out.next.cycle =
                  (out.center.cycle + 1) % reminder.cycles_per_day

\* C18 witness: seven cycles a day; the center after c is on the next date
\* and is resolved from that date's bed time, with the cycle wrapping to 0
C18_Witness ==
    /\ out.op = "resolve_next"
    /\ reminder.cycles_per_day = 7
    /\ DateOf(out.next.closest_center) # DateOf(out.first.closest_center)
    /\ out.center.cycle = 6
    /\ out.next.cycle = 0

\* C21: _get_cycle ends at the center it returns after at most
\* cycles_per_day steps, and every step makes |timestamp - candidate|
\* exactly one period smaller.
C21_StepsReduceByOnePeriod ==
    out.op = "resolve_steps" =>
        /\ out.candidates[Len(out.candidates)] = out.first.closest_center
        /\ Len(out.candidates) - 1 <= reminder.cycles_per_day
        /\ \A i \in 1..(Len(out.candidates) - 1) :
               Abs(out.t - out.candidates[i + 1])
                   = Abs(out.t - out.candidates[i]) - Period(reminder)

\* C21 as it holds: _get_cycle ends at the center it returns after at
\* most cycles_per_day steps; every step moves the candidate by one period
\* and makes |timestamp - candidate| strictly smaller, by one period while
\* the candidate stays on its side of the timestamp.
C21_StepsReduceDistance ==
    out.op = "resolve_steps" =>
        /\ out.candidates[Len(out.candidates)] = out.first.closest_center
        /\ Len(out.candidates) - 1 <= reminder.cycles_per_day
        /\ \A i \in 1..(Len(out.candidates) - 1) :
               /\ Abs(out.candidates[i + 1] - out.candidates[i])
                      = Period(reminder)
               /\ Abs(out.t - out.candidates[i + 1])
                      < Abs(out.t - out.candidates[i])
               /\ (out.candidates[i] < out.t) = (out.candidates[i + 1] < out.t)
                      => Abs(out.t - out.candidates[i + 1])
                            = Abs(out.t - out.candidates[i])
                                 - Period(reminder)

\* C21 witness: ten cycles a day, a resolution of cycles_per_day steps
\* whose last step crosses the timestamp
C21_Witness ==
    /\ out.op = "resolve_steps"
    /\ reminder.cycles_per_day = 10
    /\ Len(out.candidates) - 1 = reminder.cycles_per_day
    /\ out.candidates[Len(out.candidates)] > out.t
    /\ out.candidates[Len(out.candidates) - 1] < out.t

----------------------------------------------------------------------------
(* get_target and get_taken applied to arbitrary doses: SpecDose *)

DoseReminders ==
    {Reminder(cpd, corr, bed, FALSE, NoEmotes) :
        cpd \in {1, 3, 7}, corr \in {0, 30, 250}, bed \in {30, 660}}

\* stored centers, from two days before the clock's range to two days after
DoseCenters == {-1500, -700, -100, 200, 900, 1700}

\* timestamp - center of the dose
DoseLates == {-300, -20, 0, 20, 300}

InitDose ==
    /\ reminder \in DoseReminders
    /\ history = <<>>
    /\ now = 0
    /\ dose = NoDose
    /\ out = [op |-> "init"]
    /\ sessions = NoSessions

\* Instants are counted from 2024-01-02T00:00Z, two minutes to the unit.
\* A dose taken at 2024-01-01T21:50Z for the center 2024-01-01T22:00Z
ScenarioDose(r) == Dose(r, -65, -60)

\* three cycles a day from 22:00, corrections of at most one hour
ScenarioReminder == Reminder(3, 30, 660, FALSE, NoEmotes)

\* the doses get_target and get_taken are applied to
Doses(r) ==
    {Dose(r, c + l, c) : c \in DoseCenters, l \in DoseLates}
        \cup {ScenarioDose(r)}

Target ==
    /\ out.op = "init"
    /\ \E d \in Doses(reminder), n \in 0..MaxNowDose :
          /\ dose' = d
          /\ now' = n
          /\ out' = [op |-> "get_target", res |-> GetTarget(reminder, d, n)]
    /\ UNCHANGED <<reminder, history, sessions>>

Taken ==
    /\ out.op = "init"
    /\ \E d \in Doses(reminder), n \in 0..MaxNowDose :
          /\ dose' = d
          /\ now' = n
          /\ out' = [op |-> "get_taken", res |-> GetTaken(reminder, d, n)]
    /\ UNCHANGED <<reminder, history, sessions>>

\* the steps of the two loops of the get_taken just applied
TakenLoops ==
    /\ out.op = "get_taken"
    /\ out' = [op |-> "taken_loops", res |-> out.res,
               steps |-> TakenSteps(reminder, dose, now)]
    /\ UNCHANGED <<reminder, history, now, dose, sessions>>

NextDose ==
    \/ Target
    \/ Taken
    \/ TakenLoops

SpecDose == InitDose /\ [][NextDose]_vars

\* C1: get_taken returns a dose whose closest center is within
\* correction_amount + period of now.
C1_TakenConvergence ==
    out.op = "get_taken" =>
        Abs(out.res.closest_center - now)
            <= reminder.correction_amount + Period(reminder)

\* C1 holds of the cadences whose period divides the day exactly
C1_ExactPeriodsConverge ==
    (out.op = "get_taken" /\ ExactPeriod(reminder)) =>
        Abs(out.res.closest_center - now)
            <= reminder.correction_amount + Period(reminder)

\* C2 as claimed: the center get_taken returns is at most correction_amount
\* ahead of now when the naive next center is after now, and lags now by at
\* most correction_amount when the naive next center is at or before now.
C2_WithinOneCorrectionWindow ==
    out.op = "get_taken" =>
        LET naive == dose.closest_center + Period(reminder)
        IN  /\ naive > now =>
                out.res.center - now <= reminder.correction_amount
            /\ naive <= now =>
                now - out.res.center <= reminder.correction_amount

\* C2 amended: when the naive next center is after now, the center returned
\* is after now and at most correction_amount + period ahead of it; when
\* the naive next center is at or before now, the center returned is at or
\* before now and lags it by at most correction_amount + period.
C2_WithinOnePeriodAndWindow ==
    out.op = "get_taken" =>
        LET naive == dose.closest_center + Period(reminder)
            bound == reminder.correction_amount + Period(reminder)
        IN  /\ naive > now =>
                (now < out.res.center /\ out.res.center <= now + bound)
            /\ naive <= now =>
                (now - bound <= out.res.center /\ out.res.center <= now)

\* C2 witness: both loops of get_taken have stepped, the backward one to a
\* center that is more than correction_amount ahead of now
C2_Witness ==
    /\ out.op = "get_taken"
    /\ dose.closest_center + Period(reminder) > now
    /\ out.res.center # dose.closest_center + Period(reminder)
    /\ out.res.center - now > reminder.correction_amount

\* C3: get_target returns a dose whose timestamp is at least
\* min(d.timestamp + period, now).
C3_ProjectionMonotonicity ==
    out.op = "get_target" =>
        out.res.timestamp >= Min(dose.timestamp + Period(reminder), now)

\* C3 witness: the floor decided the projected time
C3_Witness ==
    /\ out.op = "get_target"
    /\ out.res.timestamp = Min(dose.timestamp + Period(reminder), now)
    /\ out.res.timestamp = now
    /\ out.res.timestamp # GetTargetNoFloor(reminder, dose, now).timestamp

\* C4: whenever now >= d.timestamp + period - correction_amount, the
\* timestamp get_target returns is within correction_amount of
\* d.timestamp + period.
C4_CorrectionBound ==
    (out.op = "get_target"
        /\ now >= dose.timestamp + Period(reminder)
                    - reminder.correction_amount) =>
        Abs(out.res.timestamp - (dose.timestamp + Period(reminder)))
            <= reminder.correction_amount

\* C4 witness: the raw correction exceeded correction_amount and was
\* clamped to it
C4_Witness ==
    /\ out.op = "get_target"
    /\ now >= dose.timestamp + Period(reminder) - reminder.correction_amount
    /\ reminder.correction_amount > 0
    /\ dose.closest_center - dose.timestamp > reminder.correction_amount
    /\ out.res.timestamp
          = dose.timestamp + Period(reminder) + reminder.correction_amount

\* C19: get_target(d, now) has center and closest center equal to
\* d.closest_center + period whatever now is, and the cycle after d's.
C19_TargetOnePeriodOn ==
    out.op = "get_target" =>
        /\ out.res.center = dose.closest_center + Period(reminder)
        /\ out.res.closest_center = dose.closest_center + Period(reminder)
        /\ out.res.cycle = (dose.cycle + 1) % reminder.cycles_per_day

\* C19 holds when the period divides the day exactly
C19_ExactPeriodsOnePeriodOn ==
    (out.op = "get_target" /\ ExactPeriod(reminder)) =>
        /\ out.res.center = dose.closest_center + Period(reminder)
        /\ out.res.closest_center = dose.closest_center + Period(reminder)
        /\ out.res.cycle = (dose.cycle + 1) % reminder.cycles_per_day

\* what C20 says of a dose d
WellFormedDose(r, d) ==
    /\ d.late = d.timestamp - d.center
    /\ [cycle |-> d.cycle, closest_center |-> d.closest_center]
           = GetCycle(r, d.center)
    /\ (d.closest_center - Combine(DateOf(d.center), r)) % Period(r) = 0
    /\ Abs(d.center - d.closest_center) <= HalfPeriod(r)

\* C20: every dose has late = timestamp - center, and its cycle and
\* closest center are those _get_cycle gives for its center: the closest
\* center is a whole number of periods from bed time of the center's
\* date and within half a period of the center, off-grid centers included.
C20_DoseDerivedFromCenter ==
    out.op \in {"get_target", "get_taken"} =>
        /\ WellFormedDose(reminder, dose)
        /\ WellFormedDose(reminder, out.res)

\* C20 witness: seven cycles a day, a dose whose center is off the grid
\* and whose timestamp resolves to another center than its center does
C20_Witness ==
    /\ out.op = "get_taken"
    /\ reminder.cycles_per_day = 7
    /\ dose.center # dose.closest_center
    /\ GetCycle(reminder, dose.timestamp).closest_center
           # dose.closest_center
    /\ out.res.center # out.res.closest_center

\* C22: the loops of get_taken end for every last dose and now, however
\* far the stored center is from now: at most one of them steps, the
\* steps lead from the naive next center to the center returned, and
\* they cover less than the distance from the naive next center to now.
C22_TakenLoopsEnd ==
    out.op = "taken_loops" =>
        LET naive == dose.closest_center + Period(reminder)
        IN  /\ out.steps.back = 0 \/ out.steps.forward = 0
            /\ out.res.center = naive - out.steps.back * Period(reminder)
                                      + out.steps.forward * Period(reminder)
            /\ out.steps.back * Period(reminder) <= Max(0, naive - now)
            /\ out.steps.forward * Period(reminder) <= Max(0, now - naive)

\* C22 witness: seven cycles a day and a stored center more than two days
\* old; the second loop steps more than ten times
C22_Witness ==
    /\ out.op = "taken_loops"
    /\ reminder.cycles_per_day = 7
    /\ dose.center < now - 2 * Day
    /\ out.steps.forward > 10
    /\ out.steps.back = 0

\* C29: three cycles a day from 22:00, correction limit 1 h, last dose
\* taken at 21:50 for the center 22:00 of 2024-01-01: get_target at the
\* instants 05:54 and 05:56 next to 05:55 of 2024-01-02 gives the center
\* 06:00 and the timestamp 06:00, which is the desired time 05:50 plus the
\* correction of 10 minutes and above the floor min(desired time, now).
C29_ProjectionAtSixOClock ==
    (/\ out.op = "get_target"
     /\ reminder = ScenarioReminder
     /\ dose = ScenarioDose(reminder)
     /\ now \in 177..178) =>
        /\ out.res.center = 180
        /\ out.res.timestamp = 180
        /\ out.res.timestamp = (dose.timestamp + Period(reminder)) + 5
        /\ dose.timestamp + Period(reminder) = 175
        /\ out.res.timestamp > Min(dose.timestamp + Period(reminder), now)

\* C29 witness: get_target applied to that dose at 05:54
C29_Witness ==
    /\ out.op = "get_target"
    /\ reminder = ScenarioReminder
    /\ dose = ScenarioDose(reminder)
    /\ now = 177
    /\ out.res.center = 180

\* C30: period 8 h, correction limit 1 h, closest center of the last dose
\* 2024-01-01T22:00Z: get_taken at 2024-01-02T05:00Z enters the first
\* loop (next center 06:00 after now), steps in neither loop, and returns
\* the center 06:00 with the timestamp 05:00.
C30_TakenAtFiveOClock ==
    (/\ out.op = "taken_loops"
     /\ reminder = ScenarioReminder
     /\ dose.closest_center = -60
     /\ now = 150) =>
        /\ Period(reminder) = 240
        /\ dose.closest_center + Period(reminder) > now
        /\ out.steps = [back |-> 0, forward |-> 0]
        /\ out.res.center = 180
        /\ out.res.timestamp = 150

\* C30 witness: get_taken applied at 05:00 to the dose taken at 21:50
C30_Witness ==
    /\ out.op = "taken_loops"
    /\ reminder = ScenarioReminder
    /\ dose = ScenarioDose(reminder)
    /\ now = 150
    /\ out.res.timestamp = 150

----------------------------------------------------------------------------
(* The persistence queries of Mixin *)

\* the identity (guild, member, key) of the stored reminder, and one that
\* names no row
KnownKey == "known"

Keys == {"known", "unknown"}

\* Mixin._get_reminder: whether the row exists (else NotFoundError)
ReminderFound(key) == key = KnownKey

\* the orders in which ORDER BY timestamp_utc DESC may return the rows of
\* h: permutations of the row numbers with non-increasing timestamps.  Rows
\* of equal timestamp come in an order the query does not fix.
TimestampDescOrders(h) ==
    {p \in [1..Len(h) -> 1..Len(h)] :
        /\ \A i, j \in 1..Len(h) : i # j => p[i] # p[j]
        /\ \A i, j \in 1..Len(h) :
              i < j => h[p[i]].timestamp_utc >= h[p[j]].timestamp_utc}

\* LIMIT 4
TailLimit == 4

\* Mixin._get_history_tail: the row numbers of the (at most) four rows of
\* greatest timestamp, greatest first; a set, one element per possible
\* order of the rows of equal timestamp
GetHistoryTail(h) ==
    {SubSeq(p, 1, Min(TailLimit, Len(h))) : p \in TimestampDescOrders(h)}

\* the first loop of the bootstrap of _dose_last
RECURSIVE BootstrapUp(_, _, _)
BootstrapUp(r, timestamp, n) ==
    IF timestamp < n THEN BootstrapUp(r, timestamp + Period(r), n)
    ELSE timestamp

\* the second loop of the bootstrap of _dose_last
RECURSIVE BootstrapDown(_, _, _)
BootstrapDown(r, timestamp, n) ==
    IF timestamp >= n THEN BootstrapDown(r, timestamp - Period(r), n)
    ELSE timestamp

\* _dose_last taking the oldest row of the tail
DoseLastOldest(r, h, tail, n) ==
    IF Len(tail) > 0
    THEN Dose(r, h[tail[Len(tail)]].timestamp_utc,
              h[tail[Len(tail)]].center_utc)
    ELSE LET timestamp ==
                 BootstrapDown(r, BootstrapUp(r, Combine(DateOf(n), r), n), n)
         IN  Dose(r, timestamp, timestamp)

\* Mixin._dose_last, for the tail the query returned
DoseLast(r, h, tail, n) ==
    IF Len(tail) > 0
    THEN Dose(r, h[tail[1]].timestamp_utc, h[tail[1]].center_utc)
    ELSE LET timestamp ==
                 BootstrapDown(r, BootstrapUp(r, Combine(DateOf(n), r), n), n)
         IN  Dose(r, timestamp, timestamp)

----------------------------------------------------------------------------
(* PingResponse *)

\* Mixin._dose_tail, for the tail the query returned: the doses of the
\* rows but the oldest, oldest first, each with the time since the row
\* before it
DoseTail(r, h, tail) ==
    LET doses == [i \in 1..Len(tail) |->
                     Dose(r, h[tail[Len(tail) + 1 - i]].timestamp_utc,
                          h[tail[Len(tail) + 1 - i]].center_utc)]
    IN  [i \in 1..(Len(tail) - 1) |->
            [dose   |-> doses[i + 1],
             period |-> doses[i + 1].timestamp - doses[i].timestamp]]

\* PingResponse._natural_delta(delta) with relative=False and
\* hours_only=True: the number and the unit of the text.  A tick is two
\* minutes; round is to the nearest integer, ties to even
NaturalDelta(delta) ==
    LET minutes == 2 * Abs(delta)
        hours   == DivideAndRound(Abs(delta), 30)
    IN  IF minutes < 60
        THEN [number |-> minutes,
              unit   |-> IF minutes = 1 THEN "minute" ELSE "minutes"]
        ELSE [number |-> hours,
              unit   |-> IF hours = 1 THEN "hour" ELSE "hours"]

\* from_reminder with flag_ping not looking at the mute
FromReminderIgnoringMute(r, dose_tail, dose_last, n) ==
    LET dose_target == GetTarget(r, dose_last, n)
        flag_due    == n >= dose_target.timestamp
    IN  [target     |-> dose_target,
         last       |-> dose_last,
         gaps       |-> [i \in 1..Len(dose_tail) |->
                            NaturalDelta(
                                dose_tail[Len(dose_tail) + 1 - i].period)],
         flag_due   |-> flag_due,
         flag_muted |-> n < r.mute_until_utc,
         flag_ping  |-> flag_due /\ n >= r.last_ping_utc + r.ping_interval]

\* from_reminder with flag_ping not looking at the last ping
FromReminderIgnoringLastPing(r, dose_tail, dose_last, n) ==
    LET dose_target == GetTarget(r, dose_last, n)
        flag_due    == n >= dose_target.timestamp
        flag_muted  == n < r.mute_until_utc
    IN  [target     |-> dose_target,
         last       |-> dose_last,
         gaps       |-> [i \in 1..Len(dose_tail) |->
                            NaturalDelta(
                                dose_tail[Len(dose_tail) + 1 - i].period)],
         flag_due   |-> flag_due,
         flag_muted |-> flag_muted,
         flag_ping  |-> flag_due /\ ~flag_muted]

\* from_reminder joining the gaps in the order of dose_tail
FromReminderGapsInOrder(r, dose_tail, dose_last, n) ==
    LET dose_target == GetTarget(r, dose_last, n)
        flag_due    == n >= dose_target.timestamp
        flag_muted  == n < r.mute_until_utc
    IN  [target     |-> dose_target,
         last       |-> dose_last,
         gaps       |-> [i \in 1..Len(dose_tail) |->
                            NaturalDelta(dose_tail[i].period)],
         flag_due   |-> flag_due,
         flag_muted |-> flag_muted,
         flag_ping  |-> /\ flag_due
                        /\ ~flag_muted
                        /\ n >= r.last_ping_utc + r.ping_interval]

\* from_reminder with flag_due set until the target instead of from it
FromReminderDueUntil(r, dose_tail, dose_last, n) ==
    LET dose_target == GetTarget(r, dose_last, n)
        flag_due    == n <= dose_target.timestamp
        flag_muted  == n < r.mute_until_utc
    IN  [target     |-> dose_target,
         last       |-> dose_last,
         gaps       |-> [i \in 1..Len(dose_tail) |->
                            NaturalDelta(
                                dose_tail[Len(dose_tail) + 1 - i].period)],
         flag_due   |-> flag_due,
         flag_muted |-> flag_muted,
         flag_ping  |-> /\ flag_due
                        /\ ~flag_muted
                        /\ n >= r.last_ping_utc + r.ping_interval]

\* PingResponse.from_reminder: the doses its texts when and last render,
\* the texts of gaps in their order (reversed(dose_tail)) and the three
\* flags
FromReminder(r, dose_tail, dose_last, n) ==
    LET dose_target == GetTarget(r, dose_last, n)
        flag_due    == n >= dose_target.timestamp
        flag_muted  == n < r.mute_until_utc
    IN  [target     |-> dose_target,
         last       |-> dose_last,
         gaps       |-> [i \in 1..Len(dose_tail) |->
                            NaturalDelta(
                                dose_tail[Len(dose_tail) + 1 - i].period)],
         flag_due   |-> flag_due,
         flag_muted |-> flag_muted,
         flag_ping  |-> /\ flag_due
                        /\ ~flag_muted
                        /\ n >= r.last_ping_utc + r.ping_interval]

----------------------------------------------------------------------------
(* HistoryResource *)

\* the time_utc argument of a request: absent, not an ISO instant with a
\* time zone (parse_time_iso raises ValueError), or an instant
NoTime == [kind |-> "absent", t |-> 0]

BadTime == [kind |-> "invalid", t |-> 0]

Instant(t) == [kind |-> "instant", t |-> t]

\* post accepting instants after now
TimeInFutureNever(time_, n) == FALSE

\* post: time_ > now
TimeInFuture(time_, n) == time_ > n

\* post rejecting the instant of the previous record too
BeforeRecordedOrEqual(time_, dose_last) == time_ <= dose_last.timestamp

\* post accepting instants before the previous record
BeforeRecordedNever(time_, dose_last) == FALSE

\* post: time_ < dose_last.timestamp
BeforeRecorded(time_, dose_last) == time_ < dose_last.timestamp

\* Reminder.get_emote(cycle); response_emotes is not NULL
GetEmote(r, cycle) ==
    r.response_emotes[(cycle % Len(r.response_emotes)) + 1]

\* the toggle of alternating_flag of post and delete
ToggleAlternating(r) ==
    IF r.show_alternating
    THEN [r EXCEPT !.alternating_flag = ~r.alternating_flag]
    ELSE r

\* the History row post adds
HistoryRow(dose_taken) ==
    [timestamp_utc |-> dose_taken.timestamp, center_utc |-> dose_taken.center]

\* h without its row number i
RemoveAt(h, i) == SubSeq(h, 1, i - 1) \o SubSeq(h, i + 1, Len(h))

\* what a request leaves behind: the status of the response, the reminder
\* row and the history rows
Outcome(status, r, h, time_, emote) ==
    [status |-> status, reminder |-> r, history |-> h, time |-> time_,
     emote |-> emote]

\* HistoryResource.post for the arguments key and time_utc, at clock n,
\* with tail the answer of _get_history_tail
HistoryPost(r, h, n, key, time_utc, tail) ==
    LET time_ == IF time_utc.kind = "absent" THEN n ELSE time_utc.t
    IN  IF time_utc.kind = "invalid"
        THEN Outcome(400, r, h, 0, 0)
        ELSE IF time_utc.kind = "instant" /\ TimeInFuture(time_, n)
        THEN Outcome(400, r, h, time_, 0)
        ELSE IF ~ReminderFound(key)
        THEN Outcome(404, r, h, time_, 0)
        ELSE LET dose_last  == DoseLast(r, h, tail, time_)
                 dose_taken == GetTaken(r, dose_last, time_)
                 r2         == ToggleAlternating(r)
                 h2         == Append(h, HistoryRow(dose_taken))
             IN  IF BeforeRecorded(time_, dose_last)
                 THEN Outcome(400, r, h, time_, 0)
                 ELSE IF r.response_emotes = NoEmotes
                 THEN Outcome(500, r2, h2, time_, 0)
                 ELSE Outcome(200, r2, h2, time_,
                              GetEmote(r, dose_taken.cycle))

\* delete toggling alternating_flag whether or not it found a row
HistoryDeleteToggling(r, h, key, tail) ==
    IF ~ReminderFound(key)
    THEN Outcome(404, r, h, 0, 0)
    ELSE Outcome(204, ToggleAlternating(r),
                 IF Len(tail) > 0 THEN RemoveAt(h, tail[1]) ELSE h, 0, 0)

\* HistoryResource.delete for the argument key, with tail the answer of
\* _get_history_tail
HistoryDelete(r, h, key, tail) ==
    IF ~ReminderFound(key)
    THEN Outcome(404, r, h, 0, 0)
    ELSE IF Len(tail) > 0
    THEN Outcome(204, ToggleAlternating(r), RemoveAt(h, tail[1]), 0, 0)
    ELSE Outcome(204, r, h, 0, 0)

----------------------------------------------------------------------------
(* PingResource *)

\* the key argument of GET /ping is optional
NoKey == "none"

\* Mixin._reminder_query: whether the query returns the row
ReminderMatches(r, key) == r.active /\ (key = NoKey \/ key = KnownKey)

\* what the loop of PingResource.get may build for the row: from_reminder
\* of the answers of _get_history_tail to _dose_tail and to _dose_last
PingResponses(r, h, n) ==
    {FromReminder(r, dose_tail, dose_last, n) :
        dose_tail \in {DoseTail(r, h, tail) : tail \in GetHistoryTail(h)},
        dose_last \in {DoseLast(r, h, tail, n) : tail \in GetHistoryTail(h)}}

\* get applying filter_due alone
PingGetDueOnly(r, key, filter_due, filter_muted, filter_ping_due, ping_response) ==
    IF ~ReminderMatches(r, key)
    THEN <<>>
    ELSE IF ~ping_response.flag_due /\ filter_due
    THEN <<>>
    ELSE <<ping_response>>

\* PingResource.get for the arguments key and the three filters, with
\* ping_response what from_reminder built for the row: the pings of the
\* response
PingGet(r, key, filter_due, filter_muted, filter_ping_due, ping_response) ==
    IF ~ReminderMatches(r, key)
    THEN <<>>
    ELSE IF ~ping_response.flag_due /\ filter_due
    THEN <<>>
    ELSE IF ping_response.flag_muted /\ filter_muted
    THEN <<>>
    ELSE IF ~ping_response.flag_ping /\ filter_ping_due
    THEN <<>>
    ELSE <<ping_response>>

\* PingResource.post for the argument key, at clock n
PingPost(r, h, n, key) ==
    IF ~ReminderFound(key)
    THEN Outcome(404, r, h, 0, 0)
    ELSE Outcome(204, [r EXCEPT !.last_ping_utc = n], h, 0, 0)

----------------------------------------------------------------------------
(* The server: Spec *)

\* the reminders the server starts with: three or seven cycles a day,
\* correction_amount one hour, bed time 22:00, with and without
\* alternating text, with and without response emotes
ServerReminders ==
    {Reminder(cpd, 30, 660, alt, emotes) :
        cpd \in {3, 7}, alt \in BOOLEAN, emotes \in {NoEmotes, <<11, 12>>}}

\* the clock advances four hours at a time
TickSteps == {120}

\* explicit instants of a report, relative to the clock
ReportOffsets == {-120, 0, 120}

TimeArgs(n) == {NoTime, BadTime} \cup {Instant(n + e) : e \in ReportOffsets}

Init ==
    /\ reminder \in ServerReminders
    /\ history = <<>>
    /\ now = 0
    /\ dose = NoDose
    /\ out = [op |-> "init"]
    /\ sessions = NoSessions

\* what out records of a request: the request, the response and the state
\* the request found
Request(op, key, time_utc, res) ==
    [op |-> op, key |-> key, time_utc |-> time_utc, status |-> res.status,
     time |-> res.time, emote |-> res.emote, now |-> now,
     history0 |-> history, flag0 |-> reminder.alternating_flag,
     reminder0 |-> reminder]

\* time passes
Tick ==
    /\ \E d \in TickSteps : now + d <= MaxClock /\ now' = now + d
    /\ UNCHANGED <<reminder, history, dose, out, sessions>>

\* a POST /history request
PostHistory ==
    /\ Len(history) < MaxHistory
    /\ \E key \in Keys, time_utc \in TimeArgs(now),
          tail \in GetHistoryTail(history) :
          \E res \in {HistoryPost(reminder, history, now, key, time_utc,
                                   tail)} :
              /\ reminder' = res.reminder
              /\ history' = res.history
              /\ out' = Request("post_history", key, time_utc, res)
    /\ UNCHANGED <<now, dose, sessions>>

\* a DELETE /history request
DeleteHistory ==
    /\ \E key \in Keys, tail \in GetHistoryTail(history) :
          \E res \in {HistoryDelete(reminder, history, key, tail)} :
              /\ reminder' = res.reminder
              /\ history' = res.history
              /\ out' = Request("delete_history", key, NoTime, res)
    /\ UNCHANGED <<now, dose, sessions>>

Next ==
    \/ Tick
    \/ PostHistory
    \/ DeleteHistory

Spec == Init /\ [][Next]_vars

\* the greatest timestamp of the rows of a non-empty h
MaxTimestamp(h) ==
    CHOOSE m \in {h[i].timestamp_utc : i \in 1..Len(h)} :
        \A i \in 1..Len(h) : h[i].timestamp_utc <= m

\* a report that passed the validation of post: a row was committed (the
\* response is 200, or 500 when building the response failed after the
\* commit)
Recorded(o) == o.op = "post_history" /\ o.status \in {200, 500}

\* C7: a report whose explicit instant is after the server's clock is
\* rejected, and the history rows and alternating_flag are as before.
C7_FutureInstantRejected ==
    (out.op = "post_history" /\ out.time_utc.kind = "instant"
        /\ out.time_utc.t > out.now) =>
        /\ out.status = 400
        /\ history = out.history0
        /\ reminder.alternating_flag = out.flag0

\* C7 witness: a report with an instant after the clock, for the stored
\* reminder, which has history and alternating text
C7_Witness ==
    /\ out.op = "post_history"
    /\ out.time_utc.kind = "instant"
    /\ out.time_utc.t > out.now
    /\ out.key = KnownKey
    /\ reminder.show_alternating
    /\ Len(history) > 0
    /\ out.status = 400

\* C8: a report for the stored reminder, at an instant not after the clock,
\* is rejected and leaves history and alternating_flag as they were when
\* the instant is before the greatest recorded timestamp; it is not
\* rejected and its row is recorded when the instant is that timestamp or
\* later.
C8_BeforeRecordedRejected ==
    (out.op = "post_history" /\ out.key = KnownKey
        /\ out.time_utc.kind # "invalid" /\ out.time <= out.now
        /\ Len(out.history0) > 0) =>
        IF out.time < MaxTimestamp(out.history0)
        THEN /\ out.status = 400
             /\ history = out.history0
             /\ reminder.alternating_flag = out.flag0
        ELSE /\ out.status # 400
             /\ Len(history) = Len(out.history0) + 1
             /\ history[Len(history)].timestamp_utc = out.time

\* C8 witness: a report at exactly the greatest recorded timestamp, given
\* explicitly, was recorded and answered 200
C8_Witness ==
    /\ out.op = "post_history"
    /\ out.key = KnownKey
    /\ out.time_utc.kind = "instant"
    /\ Len(out.history0) > 0
    /\ out.time = MaxTimestamp(out.history0)
    /\ out.time < out.now
    /\ out.status = 200
    /\ Len(history) = Len(out.history0) + 1

\* the last dose of h by insertion: its newest row, or the bootstrap dose
NewestDose(r, h, n) ==
    IF Len(h) > 0 THEN DoseLast(r, h, <<Len(h)>>, n)
    ELSE DoseLast(r, h, <<>>, n)

\* C9: a recorded report at instant t appends exactly one row, with
\* timestamp t and the center of get_taken(t) of the newest row (of the
\* bootstrap dose when there is none), and leaves the earlier rows as
\* they were.
C9_AppendsTakenOfNewest ==
    Recorded(out) =>
        history = Append(out.history0,
                         HistoryRow(GetTaken(reminder,
                                             NewestDose(reminder, out.history0,
                                                        out.time),
                                             out.time)))

\* C9 holds when the timestamps of the rows the report finds are distinct
C9_AppendsTakenOfNewestNoTies ==
    (Recorded(out)
        /\ \A i, j \in 1..Len(out.history0) :
              i # j => out.history0[i].timestamp_utc
                           # out.history0[j].timestamp_utc) =>
        history = Append(out.history0,
                         HistoryRow(GetTaken(reminder,
                                             NewestDose(reminder, out.history0,
                                                        out.time),
                                             out.time)))

\* C10: a recorded report immediately followed by an undo for the same
\* reminder restores the history rows and alternating_flag the report
\* found.
C10_UndoRestoresReport ==
    [][(Recorded(out) /\ out'.op = "delete_history" /\ out'.status = 204)
          => (history' = out.history0
                /\ reminder'.alternating_flag = out.flag0)]_vars

\* C10 holds when the report's instant is after every recorded timestamp
C10_UndoRestoresLaterReport ==
    [][(Recorded(out) /\ out'.op = "delete_history" /\ out'.status = 204
          /\ (Len(out.history0) > 0
                => out.time > MaxTimestamp(out.history0)))
          => (history' = out.history0
                /\ reminder'.alternating_flag = out.flag0)]_vars

\* C11: an undo for the stored reminder that finds no history row succeeds
\* (204), leaves the history empty and leaves every column of the reminder
\* row, alternating_flag included, as it was.
C11_UndoOnEmptyIsNoOp ==
    (out.op = "delete_history" /\ out.key = KnownKey
        /\ out.history0 = <<>>) =>
        /\ out.status = 204
        /\ history = <<>>
        /\ reminder = out.reminder0

\* C11 witness: an undo that found no row, for a reminder with alternating
\* text, after time has passed
C11_Witness ==
    /\ out.op = "delete_history"
    /\ out.key = KnownKey
    /\ out.history0 = <<>>
    /\ out.reminder0.show_alternating
    /\ out.status = 204
    /\ history = <<>>
    /\ now > 0

\* C13: with requests served one at a time, the history rows have
\* non-decreasing timestamps in the order they were inserted.
C13_InsertionOrderIsChronological ==
    \A i, j \in 1..Len(history) :
        i < j => history[i].timestamp_utc <= history[j].timestamp_utc

\* C13 witness: an undo took one of three rows, after reports at different
\* instants
C13_Witness ==
    /\ out.op = "delete_history"
    /\ out.status = 204
    /\ Len(out.history0) = 3
    /\ Len(history) = 2
    /\ history[1].timestamp_utc < history[2].timestamp_utc

\* C36: a report answered with anything but success leaves the History
\* rows and alternating_flag as they were.
C36_ErrorLeavesNoTrace ==
    (out.op = "post_history" /\ out.status # 200) =>
        /\ history = out.history0
        /\ reminder.alternating_flag = out.flag0

\* what holds instead: a report rejected by a check of post (400, 404)
\* leaves them as they were
C36_RejectionLeavesNoTrace ==
    (out.op = "post_history" /\ out.status \in {400, 404}) =>
        /\ history = out.history0
        /\ reminder.alternating_flag = out.flag0

\* C35: the centers of the History rows never decrease in the order of
\* insertion.
C35_CentersNonDecreasing ==
    \A i, j \in 1..Len(history) :
        i < j => history[i].center_utc <= history[j].center_utc

\* what holds instead: the centers never decrease when cycles_per_day
\* divides the day
C35_CentersNonDecreasingExact ==
    ExactPeriod(reminder) => C35_CentersNonDecreasing

----------------------------------------------------------------------------
(* The ping of one reminder, for arbitrary rows and clocks: SpecPing *)

\* reminder rows with ping_interval zero, the default and five hours, and
\* with last_ping_utc and mute_until_utc never set, early and late
PingReminders ==
    {[Reminder(cpd, 30, bed, FALSE, NoEmotes) EXCEPT
         !.ping_interval = pi, !.last_ping_utc = lp, !.mute_until_utc = mu] :
        cpd \in {3, 7}, bed \in {30, 660}, pi \in {0, 15, 150},
        lp \in {DatetimeMin, 100, 250}, mu \in {DatetimeMin, 200, 500}}

\* no History row, or one
PingHistories ==
    {<<>>} \cup
    {<<[timestamp_utc |-> c + l, center_utc |-> c]>> :
        c \in {-700, -100, 200}, l \in {-20, 0, 150}}

InitPing ==
    /\ reminder \in PingReminders
    /\ history = <<>>
    /\ now = 0
    /\ dose = NoDose
    /\ out = [op |-> "init"]
    /\ sessions = NoSessions

\* the body of the loop of PingResource.get for the reminder, its rows
\* not after the clock
QueryPing ==
    /\ out.op = "init"
    /\ \E h \in PingHistories, n \in 0..MaxNowDose :
          /\ \A i \in 1..Len(h) : h[i].timestamp_utc <= n
          /\ \E tail1, tail2 \in GetHistoryTail(h) :
                \E res \in {FromReminder(reminder,
                                 DoseTail(reminder, h, tail1),
                                 DoseLast(reminder, h, tail2, n), n)} :
                    /\ history' = h
                    /\ now' = n
                    /\ out' = [op |-> "from_reminder", res |-> res]
    /\ UNCHANGED <<reminder, dose, sessions>>

NextPing == QueryPing

SpecPing == InitPing /\ [][NextPing]_vars

\* C14: in a ping response, with target the get_target of the last dose at
\* now, flag_due is now >= target.timestamp, flag_muted is
\* now < mute_until, and flag_ping is flag_due and not flag_muted and
\* now >= last_ping + ping_interval; so flag_ping is never set while muted
\* or not due.
C14_PingFlags ==
    out.op = "from_reminder" =>
        LET target == GetTarget(reminder, out.res.last, now)
            due    == now >= target.timestamp
            muted  == now < reminder.mute_until_utc
        IN  /\ out.res.target = target
            /\ out.res.flag_due = due
            /\ out.res.flag_muted = muted
            /\ out.res.flag_ping =
                   (due /\ ~muted
                        /\ now >= reminder.last_ping_utc
                                      + reminder.ping_interval)
            /\ out.res.flag_ping => (out.res.flag_due /\ ~out.res.flag_muted)

\* C14 witness: a reminder with a History row that is due and past its
\* ping interval, but muted
C14_Witness ==
    /\ out.op = "from_reminder"
    /\ Len(history) = 1
    /\ out.res.flag_due
    /\ out.res.flag_muted
    /\ now >= reminder.last_ping_utc + reminder.ping_interval
    /\ reminder.last_ping_utc # DatetimeMin
    /\ ~out.res.flag_ping

\* s is a slot at clock n: bed_time_utc on the date of n, a whole number
\* of periods away
Slot(r, n, s) == (s - Combine(DateOf(n), r)) % Period(r) = 0

\* C16: with no History row, the last dose has timestamp and center both
\* equal to the greatest slot s with s <= now.
C16_BootstrapAtOrBeforeNow ==
    (out.op = "from_reminder" /\ history = <<>>) =>
        LET s == out.res.last.timestamp
        IN  /\ out.res.last.center = s
            /\ Slot(reminder, now, s)
            /\ s <= now
            /\ s + Period(reminder) > now

\* what holds instead: the greatest slot strictly before now
C16_BootstrapBeforeNow ==
    (out.op = "from_reminder" /\ history = <<>>) =>
        LET s == out.res.last.timestamp
        IN  /\ out.res.last.center = s
            /\ Slot(reminder, now, s)
            /\ s < now
            /\ s + Period(reminder) >= now

\* C31: with no History row the ping has flag_due unset, and so flag_ping
\* unset, at every now.
C31_NoHistoryNeverDue ==
    (out.op = "from_reminder" /\ history = <<>>) =>
        /\ ~out.res.flag_due
        /\ ~out.res.flag_ping

\* what holds instead when the period divides the day: with no History
\* row flag_due is set exactly when now is one period after the last
\* dose, that is, when now is a slot
C31_NoHistoryDueOnSlot ==
    (out.op = "from_reminder" /\ history = <<>>
        /\ Day % reminder.cycles_per_day = 0) =>
        (out.res.flag_due <=>
            now = out.res.last.timestamp + Period(reminder))

\* C33: for the last dose and the reminder of a ping with flag_due, the
\* ping of the same last dose one tick later has flag_due too; so, the
\* clock counting ticks, flag_due stays set at every later now.
C33_DueMonotone ==
    (out.op = "from_reminder" /\ out.res.flag_due) =>
        FromReminder(reminder, <<>>, out.res.last, now + 1).flag_due

\* C33 witness: a due ping whose target timestamp is now itself, before
\* the desired next time: the floor min(desired_next_time, now) decides it
C33_Witness ==
    /\ out.op = "from_reminder"
    /\ Len(history) = 1
    /\ out.res.flag_due
    /\ out.res.target.timestamp = now
    /\ now < out.res.last.timestamp + Period(reminder)
    /\ FromReminder(reminder, <<>>, out.res.last, now + 1).target.timestamp
           = now + 1

\* C34: with t the timestamp of the newest History row, a ping at a now
\* with now >= t + period + correction_amount has flag_due.
C34_DueAfterPeriodAndCorrection ==
    (out.op = "from_reminder" /\ Len(history) > 0) =>
        LET t == MaxTimestamp(history)
        IN  now >= t + Period(reminder) + reminder.correction_amount =>
                out.res.flag_due

\* C34 witness: a ping exactly period + correction_amount after the
\* History row, which was recorded before its center
C34_Witness ==
    /\ out.op = "from_reminder"
    /\ Len(history) = 1
    /\ history[1].timestamp_utc < history[1].center_utc
    /\ now = history[1].timestamp_utc + Period(reminder)
                 + reminder.correction_amount
    /\ out.res.flag_due

----------------------------------------------------------------------------
(* The server with the pings of the bot: SpecPingServer *)

\* the reminder: three cycles a day, correction_amount one hour,
\* ping_interval five hours, bed time 22:00, with alternating text and
\* response emotes
PingServerReminders ==
    {[Reminder(3, 30, 660, TRUE, <<11, 12>>) EXCEPT !.ping_interval = 150]}

\* the filter arguments of GET /ping: the defaults, all off, and only
\* filter_due
FilterArgs ==
    {[due |-> TRUE, muted |-> TRUE, ping_due |-> TRUE],
     [due |-> FALSE, muted |-> FALSE, ping_due |-> FALSE],
     [due |-> TRUE, muted |-> FALSE, ping_due |-> FALSE]}

InitPingServer ==
    /\ reminder \in PingServerReminders
    /\ history = <<>>
    /\ now = 0
    /\ dose = NoDose
    /\ out = [op |-> "init"]
    /\ sessions = NoSessions

\* a GET /ping request
GetPing ==
    /\ \E ping_response \in PingResponses(reminder, history, now) :
          \E key \in Keys \cup {NoKey}, f \in FilterArgs :
              out' = [op |-> "get_ping", key |-> key, status |-> 200,
                      filter_due |-> f.due,
                      filter_muted |-> f.muted,
                      filter_ping_due |-> f.ping_due,
                      pings |-> PingGet(reminder, key, f.due, f.muted,
                                        f.ping_due, ping_response),
                      now |-> now, history0 |-> history,
                      flag0 |-> reminder.alternating_flag,
                      reminder0 |-> reminder]
    /\ UNCHANGED <<reminder, history, now, dose, sessions>>

\* a POST /ping request
PostPing ==
    /\ \E key \in Keys :
          \E res \in {PingPost(reminder, history, now, key)} :
              /\ reminder' = res.reminder
              /\ history' = res.history
              /\ out' = Request("post_ping", key, NoTime, res)
    /\ UNCHANGED <<now, dose, sessions>>

NextPingServer ==
    \/ Tick
    \/ PostHistory
    \/ DeleteHistory
    \/ GetPing
    \/ PostPing

SpecPingServer == InitPingServer /\ [][NextPingServer]_vars

\* C15: while last_ping_utc is the instant t of a POST /ping and
\* t <= now < t + ping_interval, no ping of a GET /ping response has
\* flag_ping.
C15_MinimumGapBetweenPings ==
    (out.op = "get_ping"
        /\ out.reminder0.last_ping_utc # DatetimeMin
        /\ out.reminder0.last_ping_utc <= out.now
        /\ out.now < out.reminder0.last_ping_utc
                         + out.reminder0.ping_interval) =>
        \A i \in 1..Len(out.pings) : ~out.pings[i].flag_ping

\* C15 witness: a GET /ping some time after a POST /ping but within
\* ping_interval of it returns the reminder, due and not muted, without
\* flag_ping
C15_Witness ==
    /\ out.op = "get_ping"
    /\ out.reminder0.last_ping_utc # DatetimeMin
    /\ out.reminder0.last_ping_utc < out.now
    /\ out.now < out.reminder0.last_ping_utc + out.reminder0.ping_interval
    /\ Len(out.pings) = 1
    /\ out.pings[1].flag_due
    /\ ~out.pings[1].flag_muted
    /\ ~out.pings[1].flag_ping

\* C32: with t the instant of the newest accepted report, no ping of a
\* GET /ping at a now with t <= now < t + period - correction_amount has
\* flag_due.
C32_ReportClearsDue ==
    (out.op = "get_ping" /\ Len(history) > 0) =>
        LET t == MaxTimestamp(history)
        IN  (t <= now /\ now < t + Period(reminder)
                                  - reminder.correction_amount) =>
                \A i \in 1..Len(out.pings) : ~out.pings[i].flag_due

\* C32 witness: a GET /ping without filters four hours after the newest of
\* two reports returns the reminder, not due
C32_Witness ==
    /\ out.op = "get_ping"
    /\ Len(history) = 2
    /\ now = MaxTimestamp(history) + 120
    /\ reminder.correction_amount < Period(reminder)
    /\ Len(out.pings) = 1
    /\ ~out.pings[1].flag_due

----------------------------------------------------------------------------
(* POST /history served by two threads: SpecConcurrent *)

\* the reminder: three cycles a day, correction_amount one hour, bed time
\* 22:00, with alternating text and response emotes
ConcurrentReminders == {Reminder(3, 30, 660, TRUE, <<11, 12>>)}

InitConcurrent ==
    /\ reminder \in ConcurrentReminders
    /\ history = <<>>
    /\ now = 0
    /\ dose = NoDose
    /\ out = [op |-> "init"]
    /\ sessions = NoSessions

\* HistoryResource.post of thread w up to session.add, for a report of now
\* or of four hours ago: the arguments are parsed, the session reads the
\* reminder row and the history tail as committed (READ COMMITTED, no
\* lock), and the rows with the new one and the new alternating_flag are
\* pending in the session; a rejected request is over
OpenPost(w) ==
    /\ sessions[w].pc # "open"
    /\ Len(history) < MaxHistory
    /\ \E key \in Keys, time_utc \in {NoTime, Instant(now - 120)},
          tail \in GetHistoryTail(history) :
          \E res \in {HistoryPost(reminder, history, now, key, time_utc,
                                   tail)} :
              sessions' =
                  [sessions EXCEPT ![w] =
                      [pc        |-> IF res.status \in {400, 404}
                                     THEN "closed" ELSE "open",
                       status    |-> res.status,
                       time      |-> res.time,
                       history0  |-> history,
                       dose_last |-> DoseLast(reminder, history, tail,
                                              res.time),
                       rows      |-> res.history,
                       flag      |-> res.reminder.alternating_flag]]
    /\ UNCHANGED <<reminder, history, now, dose, out>>

\* session.commit() of thread w: the pending row is inserted and the
\* pending alternating_flag is written over the committed one
CommitPost(w) ==
    /\ sessions[w].pc = "open"
    /\ history' = Append(history, sessions[w].rows[Len(sessions[w].rows)])
    /\ reminder' = [reminder EXCEPT !.alternating_flag = sessions[w].flag]
    /\ sessions' = [sessions EXCEPT ![w].pc = "closed"]
    /\ UNCHANGED <<now, dose, out>>

NextConcurrent ==
    \/ Tick
    \/ \E w \in Workers : OpenPost(w)
    \/ \E w \in Workers : CommitPost(w)

SpecConcurrent == InitConcurrent /\ [][NextConcurrent]_vars

\* C23: with no update of the configuration, alternating_flag is its
\* initial value (unset) XOR the parity of the number of History rows
\* added and not removed when the reminder has an alternating text, and
\* stays at its initial value when it has none.
C23_FlagIsParityOfRecords ==
    reminder.alternating_flag =
        (reminder.show_alternating /\ Len(history) % 2 = 1)

\* C12: two reports for the same reminder never both read the same last
\* dose and each commit a row decided from it: reports that were both
\* recorded did not read the same history.
C12_OneReportAtATime ==
    \A v, w \in Workers :
        (v # w /\ sessions[v].pc = "closed" /\ sessions[w].pc = "closed"
            /\ sessions[v].status = 200 /\ sessions[w].status = 200) =>
            sessions[v].history0 # sessions[w].history0

----------------------------------------------------------------------------
(* ReminderResource and the table reminder: SpecReminder *)

\* In SpecReminder the variable reminder holds the rows of table reminder
\* of one (guild, member) as a function from their key to the row, and
\* history holds the History rows of the row with KnownKey.

\* the value of a JSON attribute or of a query argument: ok is whether the
\* conversion of put accepts the text (int, float, time.fromisoformat,
\* pytz.timezone), v is what it reads
Value(v) == [ok |-> TRUE, v |-> v]

Rejected(v) == [ok |-> FALSE, v |-> v]

\* the attributes of put that are followed here, and one put does not know
ReminderAttrs ==
    {"channel", "timezone", "cycles_per_day", "correction_amount",
     "ping_interval", "bed_time_utc"}

\* the offset from UTC of the zones, in ticks (no daylight saving time in
\* either)
UtcOffset(timezone) == IF timezone = "Asia/Tokyo" THEN 270 ELSE 0

\* datetime.timedelta(seconds=...), in ticks of two minutes
Seconds(s) == s \div 120

\* put converting cycles_per_day, correction_amount and ping_interval by
\* int and float alone
ConvertUnclamped(attr, value) ==
    IF attr \in {"correction_amount", "ping_interval"}
    THEN Seconds(value.v)
    ELSE value.v

\* the conversion of the value of attr in ReminderResource.put
Convert(attr, value) ==
    IF attr = "cycles_per_day"
    THEN Max(value.v, 1)
    ELSE IF attr \in {"correction_amount", "ping_interval"}
    THEN Seconds(Max(value.v, 0))
    ELSE value.v

\* the loops of put assigning the attributes: all but bed_time_utc by
\* setattr, then bed_time_utc from the local time of the row's timezone
SetAttrs(row, updates) ==
    LET set == [a \in DOMAIN row \cup (DOMAIN updates \ {"bed_time_utc"}) |->
                   IF a \in DOMAIN updates /\ a # "bed_time_utc"
                   THEN updates[a] ELSE row[a]]
    IN  IF "bed_time_utc" \in DOMAIN updates
        THEN [set EXCEPT !.bed_time_utc =
                 (updates.bed_time_utc - UtcOffset(set.timezone)) % Day]
        ELSE set

\* Reminder(guild=guild, member=member, key=key): the columns not given
\* have their defaults
NewReminder(key) ==
    [a \in {"key"} \cup DOMAIN Reminder(3, 30, 660, FALSE, NoEmotes) |->
        IF a = "key" THEN key
        ELSE Reminder(3, 30, 660, FALSE, NoEmotes)[a]]

\* the value of key after `for key in ['channel', 'timezone']`
KeyAfterRequired == "timezone"

\* what MySQL stores in the integer column key for the text 'timezone'
\* when sql_mode is not strict
ZeroKey == "0"

\* what a request to /reminder leaves behind
TableOutcome(status, table) == [status |-> status, table |-> table]

\* ReminderResource.put for the argument key and the JSON object data, on
\* the rows table; strict is the sql_mode of the server.  The data of the
\* requests have at most one attribute put refuses.
ReminderPut(table, key, data, strict) ==
    IF "timezone" \in DOMAIN data /\ ~data.timezone.ok
    THEN TableOutcome(500, table)
    ELSE IF \E a \in DOMAIN data : a \notin ReminderAttrs \/ ~data[a].ok
    THEN TableOutcome(400, table)
    ELSE LET updates == [a \in DOMAIN data |-> Convert(a, data[a])]
         IN  IF key \in DOMAIN table
             THEN TableOutcome(204,
                     [table EXCEPT ![key] = SetAttrs(table[key], updates)])
             ELSE IF \E a \in {"channel", "timezone"} : a \notin DOMAIN updates
             THEN TableOutcome(400, table)
             ELSE IF strict \/ ZeroKey \in DOMAIN table
             THEN TableOutcome(500, table)
             ELSE TableOutcome(204,
                     [k \in DOMAIN table \cup {ZeroKey} |->
                         IF k = ZeroKey
                         THEN SetAttrs(NewReminder(ZeroKey), updates)
                         ELSE table[k]])

\* delete answering 204 whether or not the row exists
ReminderDeleteAnyway(table, h, key) ==
    TableOutcome(204, [k \in DOMAIN table \ {key} |-> table[k]])

\* ReminderResource.delete for the argument key; h are the History rows
\* of the row with KnownKey, whose columns reminder_* are NOT NULL
ReminderDelete(table, h, key) ==
    IF key \notin DOMAIN table
    THEN TableOutcome(404, table)
    ELSE IF key = KnownKey /\ Len(h) > 0
    THEN TableOutcome(500, table)
    ELSE TableOutcome(204, [k \in DOMAIN table \ {key} |-> table[k]])

\* the row _get_reminder gives the handlers of /history and /ping (any
\* row when there is none: they do not read it)
RowOf(table, key) ==
    IF key \in DOMAIN table THEN table[key] ELSE NewReminder(key)

\* the key argument of those handlers: KnownKey when key names a row
Named(table, key) ==
    IF key \in DOMAIN table THEN KnownKey ELSE "unknown"

\* the rows after a handler of /history or /ping left the row r
WithRow(table, key, r) ==
    IF key \in DOMAIN table THEN [table EXCEPT ![key] = r] ELSE table

\* a stored row: channel 7, zone UTC, the defaults otherwise
StoredReminder ==
    SetAttrs(NewReminder(KnownKey), [channel |-> 7, timezone |-> "UTC"])

\* the History rows of SpecReminder
MaxReports == 1

\* the JSON objects of the PUT requests
PutData ==
    {[cycles_per_day |-> v] : v \in {Value(0), Value(5), Rejected(0)}}
    \cup {[correction_amount |-> Value(-3600)],
          [ping_interval |-> Value(-120)],
          [bed_time_utc |-> Value(660)],
          [colour |-> Value(0)],
          [channel |-> Value(7)],
          [channel |-> Value(7), timezone |-> Value("UTC")],
          [channel |-> Value(7), timezone |-> Rejected("Nowhere")],
          [channel |-> Value(7), timezone |-> Value("Asia/Tokyo"),
           cycles_per_day |-> Value(-2), correction_amount |-> Value(-3600),
           ping_interval |-> Value(3600), bed_time_utc |-> Value(660)]}

\* the time_utc arguments of the reports: none, one that does not parse,
\* and four hours after the clock
ReminderTimeArgs(n) == {NoTime, BadTime, Instant(n + 240)}

InitReminder ==
    /\ reminder \in {[k \in {} |-> StoredReminder],
                     [k \in {KnownKey} |-> StoredReminder]}
    /\ history = <<>>
    /\ now = 0
    /\ dose = NoDose
    /\ out = [op |-> "init"]
    /\ sessions = NoSessions

\* what out records of a request in SpecReminder
TableRequest(op, key, arg, status) ==
    [op |-> op, key |-> key, arg |-> arg, status |-> status]

\* a PUT /reminder request
PutReminder ==
    /\ \E key \in Keys, data \in PutData, strict \in BOOLEAN :
          \E res \in {ReminderPut(reminder, key, data, strict)} :
              /\ reminder' = res.table
              /\ out' = TableRequest("put_reminder", key, data, res.status)
    /\ UNCHANGED <<history, now, dose, sessions>>

\* a DELETE /reminder request
DeleteReminder ==
    /\ \E key \in Keys :
          \E res \in {ReminderDelete(reminder, history, key)} :
              /\ reminder' = res.table
              /\ out' = TableRequest("delete_reminder", key, NoTime,
                                     res.status)
    /\ UNCHANGED <<history, now, dose, sessions>>

\* a POST /history request
PostHistoryOf ==
    /\ Len(history) < MaxReports
    /\ \E key \in Keys, time_utc \in ReminderTimeArgs(now),
          tail \in GetHistoryTail(history) :
          \E res \in {HistoryPost(RowOf(reminder, key), history, now,
                                   Named(reminder, key), time_utc, tail)} :
              /\ reminder' = WithRow(reminder, key, res.reminder)
              /\ history' = res.history
              /\ out' = TableRequest("post_history", key, time_utc,
                                     res.status)
    /\ UNCHANGED <<now, dose, sessions>>

\* a DELETE /history request
DeleteHistoryOf ==
    /\ \E key \in Keys, tail \in GetHistoryTail(history) :
          \E res \in {HistoryDelete(RowOf(reminder, key), history,
                                     Named(reminder, key), tail)} :
              /\ reminder' = WithRow(reminder, key, res.reminder)
              /\ history' = res.history
              /\ out' = TableRequest("delete_history", key, NoTime,
                                     res.status)
    /\ UNCHANGED <<now, dose, sessions>>

\* a POST /ping request
PostPingOf ==
    /\ \E key \in Keys :
          \E res \in {PingPost(RowOf(reminder, key), history, now,
                                Named(reminder, key))} :
              /\ reminder' = WithRow(reminder, key, res.reminder)
              /\ history' = res.history
              /\ out' = TableRequest("post_ping", key, NoTime, res.status)
    /\ UNCHANGED <<now, dose, sessions>>

NextReminder ==
    \/ PutReminder
    \/ DeleteReminder
    \/ PostHistoryOf
    \/ DeleteHistoryOf
    \/ PostPingOf

SpecReminder == InitReminder /\ [][NextReminder]_vars

\* the requests of C24
IdentityRequests ==
    {"post_history", "delete_history", "post_ping", "delete_reminder"}

\* C24 as stated: a report, an undo, a recorded ping or a deletion of the
\* reminder naming an identity without a row is answered 404, and the
\* rows of reminder and of history are as before.
C24_UnknownIdentityNotFound ==
    [][(out'.op \in IdentityRequests /\ out'.key \notin DOMAIN reminder) =>
          /\ out'.status = 404
          /\ reminder' = reminder
          /\ history' = history]_vars

\* C24 amended: such a request is answered 404, except a report whose
\* time_utc does not parse or is after the clock, which is answered 400
\* before the identity is looked up; in each case the rows of reminder
\* and of history are as before.
C24_UnknownIdentityChangesNothing ==
    [][(out'.op \in IdentityRequests /\ out'.key \notin DOMAIN reminder) =>
          /\ IF /\ out'.op = "post_history"
                /\ \/ out'.arg.kind = "invalid"
                   \/ out'.arg.kind = "instant" /\ out'.arg.t > now
             THEN out'.status = 400
             ELSE out'.status = 404
          /\ reminder' = reminder
          /\ history' = history]_vars

\* C24 witness: DELETE /reminder for an identity without a row was
\* answered 404 while another reminder and its history are stored
C24_Witness ==
    /\ out.op = "delete_reminder"
    /\ out.key = "unknown"
    /\ out.status = 404
    /\ KnownKey \in DOMAIN reminder
    /\ Len(history) > 0

\* whether the JSON object data supplies a cycles_per_day that is an
\* integer and not positive
NonPositiveCycles(data) ==
    /\ "cycles_per_day" \in DOMAIN data
    /\ data.cycles_per_day.ok
    /\ data.cycles_per_day.v <= 0

\* C25: a PUT /reminder supplying a cycles_per_day that is not positive
\* is answered 400 and the rows of reminder are as before.
C25_NonPositiveCyclesRejected ==
    [][(out'.op = "put_reminder" /\ NonPositiveCycles(out'.arg)) =>
          /\ out'.status = 400
          /\ reminder' = reminder]_vars

\* C26: every row of reminder has cycles_per_day >= 1, so a positive
\* period, and correction_amount >= 0 and ping_interval >= 0.
C26_StoredReminderInRange ==
    \A k \in DOMAIN reminder :
        /\ reminder[k].cycles_per_day >= 1
        /\ Period(reminder[k]) > 0
        /\ reminder[k].correction_amount >= 0
        /\ reminder[k].ping_interval >= 0

\* C26 witness: a row was created from a JSON object with cycles_per_day
\* -2 and correction_amount -3600, and another was updated with
\* ping_interval -120
C26_Witness ==
    /\ out.op = "put_reminder"
    /\ out.status = 204
    /\ out.arg = [ping_interval |-> Value(-120)]
    /\ DOMAIN reminder = {KnownKey, ZeroKey}
    /\ reminder[KnownKey].ping_interval = 0
    /\ reminder[ZeroKey].cycles_per_day = 1
    /\ reminder[ZeroKey].correction_amount = 0
    /\ reminder[ZeroKey].ping_interval = 30

\* whether the JSON object data has channel and timezone and nothing put
\* refuses
CreationData(data) ==
    /\ {"channel", "timezone"} \subseteq DOMAIN data
    /\ \A a \in DOMAIN data : a \in ReminderAttrs /\ data[a].ok

\* C40: a PUT /reminder with channel and timezone for a key without a row
\* is answered 204 and leaves a row with that key, which _get_reminder
\* then finds.
C40_CreatedUnderRequestedKey ==
    [][(/\ out'.op = "put_reminder"
        /\ out'.key \notin DOMAIN reminder
        /\ CreationData(out'.arg)) =>
          /\ out'.status = 204
          /\ out'.key \in DOMAIN reminder'
          /\ reminder'[out'.key].key = out'.key]_vars

\* what holds instead: such a PUT leaves the key without a row; it is
\* answered 500 with the rows as they were, or 204 with a new row under
\* the key 0
C40_CreatedUnderZeroKeyOrNot ==
    [][(/\ out'.op = "put_reminder"
        /\ out'.key \notin DOMAIN reminder
        /\ CreationData(out'.arg)) =>
          /\ out'.key \notin DOMAIN reminder'
          /\ \/ out'.status = 500 /\ reminder' = reminder
             \/ /\ out'.status = 204
                /\ ZeroKey \notin DOMAIN reminder
                /\ DOMAIN reminder' = DOMAIN reminder \cup {ZeroKey}]_vars

----------------------------------------------------------------------------
(* GET /ping over rows of every kind: SpecPingGet *)

\* the instants of the reports that build the History rows: 40 minutes,
\* 2 h 30, 6 h 40 and 30 minutes apart
ReportInstants == <<0, 20, 95, 295, 310>>

\* the History rows after reports at the instants times, each served at
\* its instant
RECURSIVE Reported(_, _)
Reported(r, times) ==
    IF Len(times) = 0
    THEN <<>>
    ELSE LET h    == Reported(r, SubSeq(times, 1, Len(times) - 1))
             t    == times[Len(times)]
             tail == CHOOSE p \in GetHistoryTail(h) : TRUE
         IN  HistoryPost(r, h, t, KnownKey, NoTime, tail).history

\* rows active or not, with ping_interval 30 minutes or five hours, pinged
\* and muted never or lately
PingGetReminders ==
    {[Reminder(3, 30, 660, FALSE, NoEmotes) EXCEPT
         !.ping_interval = pi, !.last_ping_utc = lp, !.mute_until_utc = mu,
         !.active = a] :
        pi \in {15, 150}, lp \in {DatetimeMin, 400},
        mu \in {DatetimeMin, 600}, a \in BOOLEAN}

\* the clocks of the queries, after the last report
PingGetClocks == {420, 500, 700}

InitPingGet ==
    /\ reminder \in PingGetReminders
    /\ history \in {Reported(reminder, SubSeq(ReportInstants, 1, k)) :
                       k \in 0..Len(ReportInstants)}
    /\ now = 0
    /\ dose = NoDose
    /\ out = [op |-> "init"]
    /\ sessions = NoSessions

\* a GET /ping request at one of the clocks
QueryPings ==
    /\ out.op = "init"
    /\ \E n \in PingGetClocks :
          \E ping_response \in PingResponses(reminder, history, n) :
              \E key \in Keys \cup {NoKey}, f \in FilterArgs :
                  /\ now' = n
                  /\ out' = [op |-> "query_pings", key |-> key,
                             filter_due |-> f.due,
                             filter_muted |-> f.muted,
                             filter_ping_due |-> f.ping_due,
                             ping_response |-> ping_response,
                             pings |-> PingGet(reminder, key, f.due, f.muted,
                                               f.ping_due, ping_response)]
    /\ UNCHANGED <<reminder, history, dose, sessions>>

NextPingGet == QueryPings

SpecPingGet == InitPingGet /\ [][NextPingGet]_vars

\* whether the reminder is active and the query's key, if any, is its key
ActiveMatch == reminder.active /\ out.key \in {NoKey, KnownKey}

\* C27: with the three filters at their defaults every ping returned has
\* flag_due, not flag_muted and flag_ping, and the ping of an active
\* matching reminder with flag_ping is returned; with the three filters
\* off the ping of every active matching reminder is returned; the ping
\* of an inactive reminder is never returned.
C27_PingFilters ==
    out.op = "query_pings" =>
        /\ (out.filter_due /\ out.filter_muted /\ out.filter_ping_due) =>
              /\ \A i \in 1..Len(out.pings) :
                    /\ out.pings[i].flag_due
                    /\ ~out.pings[i].flag_muted
                    /\ out.pings[i].flag_ping
              /\ (ActiveMatch /\ out.ping_response.flag_ping) =>
                    out.pings = <<out.ping_response>>
        /\ (~out.filter_due /\ ~out.filter_muted /\ ~out.filter_ping_due) =>
              (ActiveMatch => out.pings = <<out.ping_response>>)
        /\ ~reminder.active => out.pings = <<>>

\* C27 witness: a query with the default filters returned the ping of a
\* reminder with History rows that was muted once
C27_Witness ==
    /\ out.op = "query_pings"
    /\ out.filter_due /\ out.filter_muted /\ out.filter_ping_due
    /\ Len(out.pings) = 1
    /\ Len(history) > 0
    /\ reminder.mute_until_utc = 600

\* the timestamps of the (at most four) newest History rows, newest first
WindowTimestamps ==
    LET tail == CHOOSE p \in GetHistoryTail(history) : TRUE
    IN  [i \in 1..Len(tail) |-> history[tail[i]].timestamp_utc]

\* C28 as stated: for the k newest rows, k <= 4, the gaps of the ping are
\* max(k - 1, 0) entries, the texts of the differences of consecutive
\* timestamps, the oldest difference first.
C28_GapsOldestFirst ==
    out.op = "query_pings" =>
        LET k == Len(WindowTimestamps)
        IN  /\ k = Min(Len(history), TailLimit)
            /\ Len(out.ping_response.gaps) = Max(k - 1, 0)
            /\ \A i \in 1..(k - 1) :
                  out.ping_response.gaps[i] =
                      NaturalDelta(WindowTimestamps[k - i]
                                       - WindowTimestamps[k + 1 - i])

\* C28 amended: the gaps are max(k - 1, 0) entries, the texts of the
\* differences of consecutive timestamps (minutes below an hour, else
\* hours rounded half to even), the newest difference first.
C28_GapsNewestFirst ==
    out.op = "query_pings" =>
        LET k == Len(WindowTimestamps)
        IN  /\ k = Min(Len(history), TailLimit)
            /\ Len(out.ping_response.gaps) = Max(k - 1, 0)
            /\ \A i \in 1..(k - 1) :
                  out.ping_response.gaps[i] =
                      NaturalDelta(WindowTimestamps[i]
                                       - WindowTimestamps[i + 1])

\* C28 witness: five History rows, of which the ping presents the three
\* gaps of the newest four: 30 minutes, 7 hours, 2 hours
C28_Witness ==
    /\ out.op = "query_pings"
    /\ Len(history) = 5
    /\ out.ping_response.gaps =
           <<[number |-> 30, unit |-> "minutes"],
             [number |-> 7, unit |-> "hours"],
             [number |-> 2, unit |-> "hours"]>>


----------------------------------------------------------------------------
(* The check session of the bot: SpecBot *)

\* the keys of the reminders of the bot's guild, in the order of
\* _reminder_query (order_by member, key)
BotKeys == <<"1", "2">>

\* the elements of a sequence
Range(seq) == {seq[i] : i \in 1..Len(seq)}

\* the reminder rows: three cycles a day, bed time 20:00, the default
\* ping_interval, never pinged, never muted
BotReminders == {Reminder(3, 30, 600, FALSE, NoEmotes)}

\* no History row, or one of two days ago
BotHistories == {<<>>, <<[timestamp_utc |-> -700, center_utc |-> -700]>>}

\* PingResource.get without arguments over the rows of table in the order
\* of keys, from position i on: the keys of the pings of the response, with
\* responses[k] what from_reminder built for row k
RECURSIVE PingGetAll(_, _, _, _)
PingGetAll(table, keys, i, responses) ==
    IF i > Len(keys)
    THEN <<>>
    ELSE LET k == keys[i]
             one == PingGet(table[k], NoKey, TRUE, TRUE, TRUE, responses[k])
         IN  (IF one = <<>> THEN <<>> ELSE <<k>>)
                 \o PingGetAll(table, keys, i + 1, responses)

\* what from_reminder may build for each row of table
TableResponses(table, h, n) ==
    {f \in [DOMAIN table ->
               UNION {PingResponses(table[k], h[k], n) : k \in DOMAIN table}] :
        \A k \in DOMAIN table : f[k] \in PingResponses(table[k], h[k], n)}

\* the check session before its first one: my_background_task is in
\* wait_until_ready
NoCheck ==
    [pc |-> "sleep", pings |-> <<>>, i |-> 0, pinged |-> FALSE,
     attempted |-> {}, sent |-> {}, failed |-> {}, posted |-> <<>>,
     stop |-> "none"]

InitBot ==
    /\ reminder \in [Range(BotKeys) -> BotReminders]
    /\ history \in [Range(BotKeys) -> BotHistories]
    /\ now = 0
    /\ dose = NoDose
    /\ out = [op |-> "init"]
    /\ sessions = NoCheck

\* a session of my_background_task from BOT.check() to the first
\* check.send(None): Bot.check calls get_ping, which raises or answers
\* with the pings, and yields the first ping or returns
StartCheck ==
    /\ sessions.pc = "sleep"
    /\ \/ /\ sessions' = [NoCheck EXCEPT !.stop = "get_ping"]
          /\ out' = [op |-> "check", raised |-> TRUE]
       \/ \E responses \in TableResponses(reminder, history, now) :
             LET pings == PingGetAll(reminder, BotKeys, 1, responses)
             IN  /\ sessions' =
                        [NoCheck EXCEPT
                            !.pc = IF pings = <<>> THEN "sleep" ELSE "await",
                            !.pings = pings,
                            !.i = IF pings = <<>> THEN 0 ELSE 1,
                            !.stop = IF pings = <<>> THEN "end" ELSE "none"]
                 /\ out' = [op |-> "check", raised |-> FALSE]
    /\ UNCHANGED <<reminder, history, now, dose>>

\* the body of the inner loop of my_background_task after a ping was
\* yielded: the message is sent and pinged becomes True, or get_channel,
\* _make_embed or a send raises and pinged stays False; sent_first tells
\* whether channel.send(ping.message, ...) had returned
Deliver ==
    /\ sessions.pc = "await"
    /\ LET k == sessions.pings[sessions.i]
       IN  \E sent_first, raised \in BOOLEAN :
              /\ ~sent_first => raised
              /\ sessions' =
                     [sessions EXCEPT
                         !.pc = "resume",
                         !.pinged = ~raised,
                         !.attempted = @ \cup {k},
                         !.sent = IF raised THEN @ ELSE @ \cup {k},
                         !.failed = IF raised THEN @ \cup {k} ELSE @]
              /\ out' = [op |-> "send", key |-> k, raised |-> raised,
                         sent_first |-> sent_first]
    /\ UNCHANGED <<reminder, history, now, dose>>

\* check.send(pinged): Bot.check calls post_ping if pinged, and yields the
\* next ping or returns; post_ping raising ends the generator.  applied
\* tells whether PingResource.post committed last_ping_utc.
Resume ==
    /\ sessions.pc = "resume"
    /\ LET k    == sessions.pings[sessions.i]
           last == sessions.i = Len(sessions.pings)
       IN  \/ /\ ~sessions.pinged
              /\ sessions' = [sessions EXCEPT
                                 !.pc = IF last THEN "sleep" ELSE "await",
                                 !.i = IF last THEN @ ELSE @ + 1,
                                 !.stop = IF last THEN "end" ELSE "none"]
              /\ out' = [op |-> "resume", key |-> k, raised |-> FALSE]
              /\ UNCHANGED reminder
           \/ /\ sessions.pinged
              /\ \E applied, raised \in BOOLEAN :
                    /\ ~applied => raised
                    /\ reminder' =
                           IF applied
                           THEN [reminder EXCEPT ![k].last_ping_utc = now]
                           ELSE reminder
                    /\ sessions' =
                           [sessions EXCEPT
                               !.posted = Append(@, k),
                               !.pc = IF raised \/ last
                                      THEN "sleep" ELSE "await",
                               !.i = IF raised \/ last THEN @ ELSE @ + 1,
                               !.stop = IF raised THEN "post_ping"
                                        ELSE IF last THEN "end" ELSE "none"]
                    /\ out' = [op |-> "post_ping", key |-> k,
                               raised |-> raised]
    /\ UNCHANGED <<history, now, dose>>

NextBot ==
    \/ Tick
    \/ StartCheck
    \/ Deliver
    \/ Resume

SpecBot == InitBot /\ [][NextBot]_vars

\* whether the step is the start of a session whose get_ping answered
CheckStarts ==
    sessions.pc = "sleep" /\ out'.op = "check" /\ ~out'.raised

\* post_ping was called for sent pings only and once for each, and a
\* ping whose send raised left the rows as they were
RecordsFollowSends ==
    /\ Range(sessions'.posted) \subseteq sessions'.sent
    /\ \A i, j \in 1..Len(sessions'.posted) :
          sessions'.posted[i] = sessions'.posted[j] => i = j
    /\ (sessions.pc = "resume" /\ ~sessions.pinged) => reminder' = reminder

\* C37: in a check session post_ping is called for a reminder only after
\* its message was sent without error in that session and at most once; a
\* send that raised leaves last_ping_utc as it was, and the next session's
\* get_ping returns the reminder again.
C37_RecordAfterSendAndRetry ==
    [][/\ RecordsFollowSends
       /\ CheckStarts => sessions.failed \subseteq Range(sessions'.pings)]_vars

\* what holds instead: the next session's get_ping returns the reminder
\* again if it has a History row
C37_RecordAfterSendAndRetryRecorded ==
    [][/\ RecordsFollowSends
       /\ CheckStarts =>
             \A k \in sessions.failed :
                 history[k] # <<>> => k \in Range(sessions'.pings)]_vars

\* whether a check session has ended
CheckEnded == sessions.pc = "sleep" /\ out.op # "init"

\* C38: when a check session ends, a send was attempted for every ping
\* get_ping returned, whatever send or post_ping raised.
C38_EveryPingAttempted ==
    CheckEnded => sessions.attempted = Range(sessions.pings)

\* what holds instead: a send was attempted for every ping unless
\* post_ping raised, which ends the session at that ping
C38_EveryPingAttemptedUnlessRecordRaised ==
    CheckEnded =>
        IF sessions.stop = "post_ping"
        THEN sessions.attempted =
                 {sessions.pings[i] : i \in 1..sessions.i}
        ELSE sessions.attempted = Range(sessions.pings)

----------------------------------------------------------------------------
(* The desktop client: SpecDesktop *)

\* the signals queued between the GUI thread and the communication
\* thread, at most
MaxQueue == 2

\* the keys of the member's reminders
DesktopKeys == {"1", "2"}

\* EvelynDesktop.state_key is None
NoStateKey == "None"

\* the key CommunicationWorker.get_ping emits without a ping or after an
\* exception
NoPing == "-1"

\* the signals signal_get_ping and signal_post_history
SignalGetPing == [signal |-> "get_ping"]
SignalPostHistory(key) == [signal |-> "post_history", key |-> key]

\* the signals signal_get_ping_done and signal_post_history_done
SignalGetPingDone(key) == [signal |-> "get_ping_done", key |-> key]
SignalPostHistoryDone(error) == [signal |-> "post_history_done", error |-> error]

\* EvelynDesktop after __init__: state_key None, timer_ping started, the
\* single shot of get_ping emitted.  to_worker and to_gui are the queued
\* signals, response the way the last report-done dialog was closed, fresh
\* whether get_ping was called since.
NewDesktop ==
    [state_key |-> NoStateKey, timer_ping |-> TRUE, timer_label |-> FALSE,
     widget |-> "ping", dialog |-> FALSE,
     to_worker |-> <<SignalGetPing>>, to_gui |-> <<>>,
     response |-> "none", fresh |-> FALSE]

InitDesktop ==
    /\ reminder \in BotReminders
    /\ history = <<>>
    /\ now = 0
    /\ dose = NoDose
    /\ out = [op |-> "init"]
    /\ sessions = NewDesktop

\* the number of queued signals
Queued(d) == Len(d.to_worker) + Len(d.to_gui)

\* EvelynDesktop.get_ping
DesktopGetPing(d) ==
    [d EXCEPT !.to_worker = Append(@, SignalGetPing), !.fresh = TRUE]

\* EvelynDesktop.post_history, called without a date or with one
DesktopPostHistory(d) ==
    IF d.state_key = NoStateKey
    THEN d
    ELSE [d EXCEPT !.widget = "alert",
                   !.to_worker = Append(@, SignalPostHistory(d.state_key))]

\* timer_ping times out
TimerPing ==
    /\ sessions.timer_ping
    /\ Queued(sessions) < MaxQueue
    /\ sessions' = DesktopGetPing(sessions)
    /\ out' = [op |-> "timer_ping"]
    /\ UNCHANGED <<reminder, history, now, dose>>

\* timer_label times out
TimerLabel ==
    /\ sessions.timer_label
    /\ sessions' = [sessions EXCEPT !.timer_label = FALSE, !.widget = "ping"]
    /\ out' = [op |-> "timer_label"]
    /\ UNCHANGED <<reminder, history, now, dose>>

\* CommunicationWorker.get_ping: the key of a ping, or -1
WorkerGetPing ==
    /\ sessions.to_worker # <<>>
    /\ Head(sessions.to_worker).signal = "get_ping"
    /\ \E key \in DesktopKeys \cup {NoPing} :
          /\ sessions' = [sessions EXCEPT
                             !.to_worker = Tail(@),
                             !.to_gui = Append(@, SignalGetPingDone(key))]
          /\ out' = [op |-> "worker_get_ping", key |-> key]
    /\ UNCHANGED <<reminder, history, now, dose>>

\* CommunicationWorker.post_history
WorkerPostHistory ==
    /\ sessions.to_worker # <<>>
    /\ Head(sessions.to_worker).signal = "post_history"
    /\ \E error \in BOOLEAN :
          /\ sessions' = [sessions EXCEPT
                             !.to_worker = Tail(@),
                             !.to_gui = Append(@, SignalPostHistoryDone(error))]
          /\ out' = [op |-> "worker_post_history", error |-> error]
    /\ UNCHANGED <<reminder, history, now, dose>>

\* EvelynDesktop.get_ping_done
GetPingDone ==
    /\ sessions.to_gui # <<>>
    /\ Head(sessions.to_gui).signal = "get_ping_done"
    /\ LET key == Head(sessions.to_gui).key
       IN  sessions' = [sessions EXCEPT
                           !.to_gui = Tail(@),
                           !.state_key = IF key = NoPing
                                         THEN NoStateKey ELSE key]
    /\ out' = [op |-> "get_ping_done"]
    /\ UNCHANGED <<reminder, history, now, dose>>

\* EvelynDesktop.post_history_done
PostHistoryDone ==
    /\ sessions.to_gui # <<>>
    /\ Head(sessions.to_gui).signal = "post_history_done"
    /\ sessions' = DesktopGetPing([sessions EXCEPT
                                      !.to_gui = Tail(@),
                                      !.timer_label = TRUE,
                                      !.timer_ping = TRUE])
    /\ out' = [op |-> "post_history_done"]
    /\ UNCHANGED <<reminder, history, now, dose>>

\* a click on label_ping: post_history without a date
ClickLabel ==
    /\ ~sessions.dialog
    /\ sessions.widget = "ping"
    /\ Queued(sessions) < MaxQueue
    /\ sessions' = DesktopPostHistory(sessions)
    /\ out' = [op |-> "click", state_key |-> sessions.state_key]
    /\ UNCHANGED <<reminder, history, now, dose>>

\* EvelynDesktop.report_done up to report_done_dialog.exec()
OpenReportDone ==
    /\ ~sessions.dialog
    /\ sessions' = [sessions EXCEPT !.timer_ping = FALSE, !.dialog = TRUE,
                                    !.response = "none", !.fresh = FALSE]
    /\ out' = [op |-> "report_done"]
    /\ UNCHANGED <<reminder, history, now, dose>>

\* EvelynDesktop.report_done after report_done_dialog.exec() returned
CloseReportDone ==
    /\ sessions.dialog
    /\ Queued(sessions) < MaxQueue
    /\ \E response \in {"accepted", "rejected"} :
          LET closed == [sessions EXCEPT !.dialog = FALSE,
                                         !.response = response]
          IN  /\ sessions' =
                     IF response # "accepted"
                     THEN DesktopGetPing([closed EXCEPT !.timer_ping = TRUE])
                     ELSE DesktopPostHistory(closed)
              /\ out' = [op |-> "report_done_closed",
                         response |-> response,
                         state_key |-> sessions.state_key]
    /\ UNCHANGED <<reminder, history, now, dose>>

NextDesktop ==
    \/ TimerPing
    \/ TimerLabel
    \/ WorkerGetPing
    \/ WorkerPostHistory
    \/ GetPingDone
    \/ PostHistoryDone
    \/ ClickLabel
    \/ OpenReportDone
    \/ CloseReportDone

SpecDesktop == InitDesktop /\ [][NextDesktop]_vars

\* the event loops of the communication thread and of the GUI thread
\* deliver every queued signal
SpecDesktopFair ==
    /\ SpecDesktop
    /\ WF_vars(WorkerGetPing)
    /\ WF_vars(WorkerPostHistory)
    /\ WF_vars(GetPingDone)
    /\ WF_vars(PostHistoryDone)

\* C39: after the report-done dialog was closed, cancelled or accepted,
\* with or without a state_key, timer_ping is eventually running and
\* get_ping was called again.
C39_PollingResumes ==
    (~sessions.dialog /\ sessions.response # "none") ~>
        (sessions.timer_ping /\ sessions.fresh)

\* what holds instead: timer_ping is eventually running and get_ping was
\* called again after the dialog was cancelled, and after it was accepted
\* while state_key was set
C39_PollingResumesUnlessNoStateKey ==
    (/\ out.op = "report_done_closed"
     /\ out.response = "accepted" => out.state_key # NoStateKey) ~>
        (sessions.timer_ping /\ sessions.fresh)

\* and after it was accepted while state_key was None, timer_ping stays
\* stopped until a click on the label or the next dialog
C39_PollingStaysStopped ==
    [][(/\ ~sessions.dialog
        /\ sessions.response = "accepted"
        /\ ~sessions.timer_ping
        /\ ~\E i \in 1..Len(sessions.to_worker) :
              sessions.to_worker[i].signal = "post_history"
        /\ ~\E i \in 1..Len(sessions.to_gui) :
              sessions.to_gui[i].signal = "post_history_done"
        /\ out'.op \notin {"click", "report_done"}) =>
          ~sessions'.timer_ping]_vars

====
